---- MODULE Spec2Model ----
(***************************************************************************)
(* Model of the pytorch-utils helpers:                                     *)
(*   generic_nn_model.py        GenericNeuralNetworkModel, compose         *)
(*   environment_vars_utils.py  setup_environment_from_json, verify        *)
(*   data_utils.py              get_optimizer, accuracy_fn                 *)
(*   metrics_utils.py           simple_accuracy_fn                         *)
(*                                                                         *)
(* The function bodies are modelled as written.  Names the files use       *)
(* without importing them (dataclasses, torch in metrics_utils.py) are     *)
(* taken to resolve to the library of that name, as they do when the       *)
(* functions are run from a notebook namespace.                            *)
(***************************************************************************)
EXTENDS Integers, Sequences, FiniteSets, TLC

(* ------------------------------ bounds -------------------------------- *)
MaxLayers == 3      \* longest descriptor list explored
MaxWidth  == 2      \* feature widths range over 1..MaxWidth
MaxPasses == 2      \* forward passes per constructed model

Widths == 1..MaxWidth

(* SeqsUpTo(S, n): every sequence over S of length 0..n *)
SeqsUpTo(S, n) == UNION {[1..k -> S] : k \in 0..n}

(* ===================== generic_nn_model.py ============================ *)

VARIABLES
    status,         \* "unbuilt" | "constructed" | "failed" (constructor raised)
    layers,         \* self.layers: sequence of built nn.Linear modules
    layer_attrs,    \* the layer_<i> attributes set on self, by index
    activation_fn,  \* self.activation_fn: "unset" | "None" | "ReLU"
    layer_kind,     \* the layer_type argument the constructor was given
    ctor_specs,     \* the specs argument the constructor was given
    built,          \* number of nn.Linear instances created by the constructor
    ctor_err,       \* exception that escaped the constructor, or "none"
    fwd_x,          \* trailing dimension of the argument of the last forward(x)
    fwd_ret,        \* outcome of the last forward(x)
    act_calls,      \* activation invocations made by the last forward(x)
    passes          \* forward passes run so far

nnVars == <<status, layers, layer_attrs, activation_fn, layer_kind, ctor_specs,
            built, ctor_err, fwd_x, fwd_ret, act_calls, passes>>

(* LayerType: the enum has the single member LINEAR; "OTHER" stands for any
   value that does not compare equal to LayerType.LINEAR. *)
LayerType == {"LINEAR", "OTHER"}

(* LayerSpecs(in_features, out_features) *)
LayerSpecs == [in_features : Widths, out_features : Widths]

Activations == {"None", "ReLU"}

(* Linear with the two widths passed in the wrong order *)
LinearSwapped(spec, idx) ==
    [in_features |-> spec.out_features, out_features |-> spec.in_features,
     id |-> idx, weight |-> 0]

(* nn.Linear over asdict(spec): the module keeps the two widths and owns its
   parameters (weight: the parameter state, 0 as initialised); id names the
   instance, each call creating a fresh module. *)
Linear(spec, idx) ==
    [in_features |-> spec.in_features, out_features |-> spec.out_features,
     id |-> idx, weight |-> 0]

(* _generate_layers: the loop over enumerate(specs).  The result records the
   list built so far, the attributes set, the number of modules created and
   the exception raised ("none" when the loop runs to its end). *)
RECURSIVE GenLoop(_, _, _, _)
GenLoop(specs, layer_type, i, acc) ==
    IF i > Len(specs) THEN acc
    ELSE IF layer_type = "LINEAR"
         THEN LET layer == Linear(specs[i], i - 1) IN
              GenLoop(specs, layer_type, i + 1,
                      [layers |-> Append(acc.layers, layer),
                       attrs  |-> Append(acc.attrs, layer),
                       built  |-> acc.built + 1,
                       err    |-> "none"])
         ELSE [acc EXCEPT !.err = "ValueError"]

_generate_layers(specs, layer_type) ==
    GenLoop(specs, layer_type, 1,
            [layers |-> <<>>, attrs |-> <<>>, built |-> 0, err |-> "none"])

(* __init__(specs, activation_fn, layer_type) *)
__init__(specs, act, layer_type) ==
    /\ status = "unbuilt"
    /\ LET g == _generate_layers(specs, layer_type) IN
       /\ layer_attrs' = g.attrs
       /\ built' = g.built
       /\ ctor_err' = g.err
       /\ layer_kind' = layer_type
       /\ ctor_specs' = specs
       /\ IF g.err = "none"
          THEN /\ status' = "constructed"
               /\ layers' = g.layers
               /\ activation_fn' = act
          ELSE /\ status' = "failed"
               /\ layers' = <<>>
               /\ activation_fn' = "unset"
    /\ UNCHANGED <<fwd_x, fwd_ret, act_calls, passes>>

(* A Python value is iterable when its type defines __iter__ or __getitem__;
   nn.Linear and the activation modules define neither. *)
Iterable(obj) == FALSE

(* zip(layer, activation_fn) *)
Zip(layer, act) ==
    IF Iterable(layer) /\ Iterable(act)
    THEN [kind |-> "zip", val |-> <<layer, act>>]
    ELSE [kind |-> "raise", val |-> "TypeError"]

(* s[:-1] *)
ButLast(s) == IF Len(s) = 0 THEN s ELSE SubSeq(s, 1, Len(s) - 1)

\* compose: reduce(lambda f, g: ..., functions) without an initial value
compose(functions) ==
    IF Len(functions) = 0
    THEN [kind |-> "raise", val |-> "TypeError"]
    ELSE [kind |-> "callable", val |-> functions]

(* The value forward(x) produces: the comprehension evaluates zip for each
   layer in turn, the list is sliced, and compose is applied; x is not used. *)
ForwardValue(ls, act, x) ==
    LET pairs == [i \in 1..Len(ls) |-> Zip(ls[i], act)] IN
    IF \E i \in 1..Len(ls) : pairs[i].kind = "raise"
    THEN [kind |-> "raise", val |-> "TypeError"]
    ELSE compose(ButLast(pairs))

(* Activation invocations made while forward(x) runs: zip and compose call
   neither a layer nor the activation, and what compose returns is returned
   to the caller without being applied. *)
ActivationCalls(ls, act, x) == 0

(* forward that slices self.layers in place instead of slicing a copy *)
forward_slices_in_place(x_dim) ==
    /\ status = "constructed"
    /\ passes < MaxPasses
    /\ fwd_x' = x_dim
    /\ fwd_ret' = ForwardValue(layers, activation_fn, x_dim)
    /\ act_calls' = ActivationCalls(layers, activation_fn, x_dim)
    /\ passes' = passes + 1
    /\ layers' = ButLast(layers)
    /\ UNCHANGED <<status, layer_attrs, activation_fn, layer_kind,
                   ctor_specs, built, ctor_err>>

\* forward: x is a tensor with trailing dimension x_dim
forward(x_dim) ==
    /\ status = "constructed"
    /\ passes < MaxPasses
    /\ fwd_x' = x_dim
    /\ fwd_ret' = ForwardValue(layers, activation_fn, x_dim)
    /\ act_calls' = ActivationCalls(layers, activation_fn, x_dim)
    /\ passes' = passes + 1
    /\ UNCHANGED <<status, layers, layer_attrs, activation_fn, layer_kind,
                   ctor_specs, built, ctor_err>>

NoRet == [kind |-> "none", val |-> "none"]

NNStart ==
    /\ status = "unbuilt"
    /\ layers = <<>>
    /\ layer_attrs = <<>>
    /\ activation_fn = "unset"
    /\ layer_kind = "unset"
    /\ ctor_specs = <<>>
    /\ built = 0
    /\ ctor_err = "none"
    /\ fwd_x = 0
    /\ fwd_ret = NoRet
    /\ act_calls = 0
    /\ passes = 0

Construct ==
    /\ status = "unbuilt"
    /\ \E specs \in SeqsUpTo(LayerSpecs, MaxLayers), act \in Activations,
       lt \in LayerType : __init__(specs, act, lt)

Forward ==
    /\ status = "constructed"
    /\ \E x_dim \in Widths : forward(x_dim)


(* ================= environment_vars_utils.py ========================== *)

MaxItems == 2       \* most key-value pairs in one config file
MaxCalls == 2       \* calls of setup_environment_from_json

VARIABLES
    environ,        \* os.environ: variable name -> string, Unset when absent
    env_file,       \* what json_path held at the last call
    mount,          \* outcome of drive.mount at the last call: "ok" | "raise"
    env_ret,        \* outcome of the last setup_environment_from_json
    calls,          \* calls of setup_environment_from_json so far
    report          \* lines of the last verify_environment_variables

envVars == <<environ, env_file, mount, env_ret, calls, report>>

Unset == "<unset>"

(* Keys of a JSON object are strings.  "A=B" is a name putenv rejects. *)
KeyNames == {"A", "B", "A=B"}

(* JSON values: t is the JSON type, s the literal as it stands in the file.
   The third one is a string holding a NUL character. *)
JsonValues ==
    {[t |-> "string", s |-> "v"],
     [t |-> "string", s |-> "nul"],
     [t |-> "number", s |-> "1"],
     [t |-> "bool",   s |-> "true"]}

(* str(value) of the Python object json.load builds for a JSON value *)
Str(v) ==
    CASE v.t = "string" -> v.s
      [] v.t = "number" -> v.s
      [] v.t = "bool"   -> IF v.s = "true" THEN "True" ELSE "False"
      [] OTHER          -> "None"

(* A parsed JSON object: its items in file order, keys distinct *)
Configs ==
    {c \in SeqsUpTo([key : KeyNames, value : JsonValues], MaxItems) :
        \A i, j \in 1..Len(c) : c[i].key = c[j].key => i = j}

(* What open(json_path) and json.load find *)
Files ==
    {[kind |-> "absent",    items |-> <<>>],
     [kind |-> "malformed", items |-> <<>>],
     [kind |-> "list",      items |-> <<>>]}
    \cup {[kind |-> "dict", items |-> c] : c \in Configs}

(* os.environ[name] = text raises ValueError for a name holding "=" and for
   a NUL character in either string. *)
CanSet(name, text) == name # "A=B" /\ text # "nul"

(* The loop going on to the next item after one could not be set *)
RECURSIVE SetLoopSkips(_, _, _)
SetLoopSkips(items, i, env) ==
    IF i > Len(items) THEN [env |-> env, err |-> "none"]
    ELSE IF CanSet(items[i].key, Str(items[i].value))
         THEN SetLoopSkips(items, i + 1,
                           [env EXCEPT ![items[i].key] = Str(items[i].value)])
         ELSE [SetLoopSkips(items, i + 1, env) EXCEPT !.err = "ValueError"]

(* The loop over config.items(): environment after the loop and the
   exception that ended it ("none" when it ran to its end). *)
RECURSIVE SetLoop(_, _, _)
SetLoop(items, i, env) ==
    IF i > Len(items) THEN [env |-> env, err |-> "none"]
    ELSE IF CanSet(items[i].key, Str(items[i].value))
         THEN SetLoop(items, i + 1,
                      [env EXCEPT ![items[i].key] = Str(items[i].value)])
         ELSE [env |-> env, err |-> "ValueError"]

(* The body of the try block: exception raised ("none" if it returns) and
   the environment it leaves. *)
TryBody(file, env) ==
    CASE file.kind = "absent"    -> [env |-> env, err |-> "FileNotFoundError"]
      [] file.kind = "malformed" -> [env |-> env, err |-> "JSONDecodeError"]
      [] file.kind = "list"      -> [env |-> env, err |-> "ValueError"]
      [] OTHER                   -> SetLoop(file.items, 1, env)

(* Classes derived from Exception among those the try block raises *)
ExceptionClasses == {"FileNotFoundError", "JSONDecodeError", "ValueError"}

(* The except clauses without the last one *)
CatchesNamedOnly(exc) ==
    exc = "FileNotFoundError" \/ exc = "JSONDecodeError"

(* The except clauses: FileNotFoundError, json.JSONDecodeError, Exception *)
Catches(exc) ==
    \/ exc = "FileNotFoundError"
    \/ exc = "JSONDecodeError"
    \/ exc \in ExceptionClasses

\* setup_environment_from_json(json_path)
setup_environment_from_json(file, mnt) ==
    /\ calls < MaxCalls
    /\ calls' = calls + 1
    /\ env_file' = file
    /\ mount' = mnt
    /\ report' = <<>>
    /\ IF mnt = "raise"
       THEN /\ env_ret' = [kind |-> "raised", val |-> "MountError"]
            /\ environ' = environ
       ELSE LET r == TryBody(file, environ) IN
            /\ environ' = r.env
            /\ env_ret' = IF r.err = "none"
                          THEN [kind |-> "config", val |-> "config"]
                          ELSE IF Catches(r.err)
                               THEN [kind |-> "None", val |-> r.err]
                               ELSE [kind |-> "raised", val |-> r.err]

\* verify_environment_variables(config), config being the last result
verify_environment_variables ==
    /\ env_ret.kind \in {"None", "config"}
    /\ report' = IF env_ret.kind = "None" THEN <<>>
                 ELSE [i \in 1..Len(env_file.items) |->
                          [key |-> env_file.items[i].key,
                           set |-> environ[env_file.items[i].key] # Unset]]
    /\ UNCHANGED <<environ, env_file, mount, env_ret, calls>>

EnvStart ==
    /\ environ \in {e \in [KeyNames -> {Unset, "old"}] : e["A=B"] = Unset}
    /\ env_file = [kind |-> "none", items |-> <<>>]
    /\ mount = "none"
    /\ env_ret = NoRet
    /\ calls = 0
    /\ report = <<>>

Setup ==
    /\ calls < MaxCalls
    /\ \E file \in Files, mnt \in {"ok", "raise"} :
          setup_environment_from_json(file, mnt)

Verify == verify_environment_variables

(* ================= data_utils.py: get_optimizer ======================= *)

MaxOptCalls == 3    \* calls of get_optimizer

VARIABLES
    opt_kind,       \* the optimizer_type argument of the last get_optimizer
    opt_ret,        \* outcome of the last get_optimizer
    optimizers,     \* torch.optim instances created so far, in order
    opt_calls       \* calls of get_optimizer so far

optVars == <<opt_kind, opt_ret, optimizers, opt_calls>>

(* optimizer_type strings tried *)
KindStrings == {"SGD", "Adam", "RMSProp", "sgd", "adam", ""}

(* learning rates, in thousandths *)
LearningRates == {1, 100}

(* get_optimizer comparing the kind without regard to case *)
OptimizerForAnyCase(model, optimizer_type, lr) ==
    IF optimizer_type \in {"SGD", "sgd"}
    THEN LET o == [class |-> "SGD", params |-> model, lr |-> lr] IN
         [made |-> <<o>>, ret |-> [kind |-> "optimizer", val |-> o]]
    ELSE IF optimizer_type \in {"Adam", "adam"}
    THEN LET o == [class |-> "Adam", params |-> model, lr |-> lr] IN
         [made |-> <<o>>, ret |-> [kind |-> "optimizer", val |-> o]]
    ELSE [made |-> <<>>, ret |-> [kind |-> "raise", val |-> "ValueError"]]

(* What get_optimizer(model, optimizer_type, lr) does: the instance it
   creates (made: a sequence of zero or one instance) and what it returns or
   raises. *)
OptimizerFor(model, optimizer_type, lr) ==
    IF optimizer_type = "SGD"
    THEN LET o == [class |-> "SGD", params |-> model, lr |-> lr] IN
         [made |-> <<o>>, ret |-> [kind |-> "optimizer", val |-> o]]
    ELSE IF optimizer_type = "Adam"
    THEN LET o == [class |-> "Adam", params |-> model, lr |-> lr] IN
         [made |-> <<o>>, ret |-> [kind |-> "optimizer", val |-> o]]
    ELSE [made |-> <<>>, ret |-> [kind |-> "raise", val |-> "ValueError"]]

get_optimizer(model, optimizer_type, lr) ==
    /\ opt_calls < MaxOptCalls
    /\ opt_calls' = opt_calls + 1
    /\ opt_kind' = optimizer_type
    /\ LET r == OptimizerFor(model, optimizer_type, lr) IN
       /\ opt_ret' = r.ret
       /\ optimizers' = optimizers \o r.made

OptStart ==
    /\ opt_kind = "none"
    /\ opt_ret = NoRet
    /\ optimizers = <<>>
    /\ opt_calls = 0

GetOptimizer ==
    /\ opt_calls < MaxOptCalls
    /\ \E kind \in KindStrings, lr \in LearningRates :
        get_optimizer("model", kind, lr)

(* ====== data_utils.py: accuracy_fn, metrics_utils.py: simple_accuracy_fn *)

MaxLen == 3         \* longest label sequence

VARIABLES
    y_true,         \* the truth labels passed
    y_pred,         \* the predicted labels passed
    acc_fn,         \* which function ran last
    acc_ret         \* its result, the exact quotient num / den

accVars == <<y_true, y_pred, acc_fn, acc_ret>>

Labels == {0, 1}

(* torch.ne in place of torch.eq *)
TorchNe(a, b) == [i \in 1..Len(a) |-> IF a[i] # b[i] THEN 1 ELSE 0]

(* torch.eq(a, b): elementwise equality of two 1-D tensors of one length *)
TorchEq(a, b) == [i \in 1..Len(a) |-> IF a[i] = b[i] THEN 1 ELSE 0]

(* .sum().item() *)
RECURSIVE SumSeq(_)
SumSeq(s) == IF Len(s) = 0 THEN 0 ELSE s[1] + SumSeq(Tail(s))

(* (correct / len(y_pred)) * 100, kept as an exact quotient *)
accuracy_fn(yt, yp) ==
    LET correct == SumSeq(TorchEq(yt, yp)) IN
    [num |-> correct * 100, den |-> Len(yp)]

simple_accuracy_fn(yt, yp) ==
    LET correct == SumSeq(TorchEq(yt, yp)) IN
    [num |-> correct * 100, den |-> Len(yp)]

AccStart ==
    /\ \E n \in 1..MaxLen : y_true \in [1..n -> Labels] /\ y_pred \in [1..n -> Labels]
    /\ acc_fn = "none"
    /\ acc_ret = [num |-> 0, den |-> 1]

CallAccuracy ==
    /\ acc_fn' = "accuracy_fn"
    /\ acc_ret' = accuracy_fn(y_true, y_pred)
    /\ UNCHANGED <<y_true, y_pred>>

CallSimpleAccuracy ==
    /\ acc_fn' = "simple_accuracy_fn"
    /\ acc_ret' = simple_accuracy_fn(y_true, y_pred)
    /\ UNCHANGED <<y_true, y_pred>>

(* ========================= specifications ============================= *)

vars == <<nnVars, envVars, optVars, accVars>>

(* Start states of a part that a specification does not exercise *)
NNIdle  == NNStart
EnvIdle == EnvStart /\ environ = [k \in KeyNames |-> Unset]
OptIdle == OptStart
AccIdle == AccStart /\ y_true = <<0>> /\ y_pred = <<0>>

InitNN == NNStart /\ EnvIdle /\ OptIdle /\ AccIdle
NextNN ==
    \/ Construct /\ UNCHANGED <<envVars, optVars, accVars>>
    \/ Forward /\ UNCHANGED <<envVars, optVars, accVars>>
SpecNN == InitNN /\ [][NextNN]_vars

InitEnv == EnvStart /\ NNIdle /\ OptIdle /\ AccIdle
NextEnv ==
    \/ Setup /\ UNCHANGED <<nnVars, optVars, accVars>>
    \/ Verify /\ UNCHANGED <<nnVars, optVars, accVars>>
SpecEnv == InitEnv /\ [][NextEnv]_vars

InitOpt == OptStart /\ NNIdle /\ EnvIdle /\ AccIdle
NextOpt == GetOptimizer /\ UNCHANGED <<nnVars, envVars, accVars>>
SpecOpt == InitOpt /\ [][NextOpt]_vars

InitAcc == AccStart /\ NNIdle /\ EnvIdle /\ OptIdle
NextAcc ==
    \/ CallAccuracy /\ UNCHANGED <<nnVars, envVars, optVars>>
    \/ CallSimpleAccuracy /\ UNCHANGED <<nnVars, envVars, optVars>>
SpecAcc == InitAcc /\ [][NextAcc]_vars

(* ============================ properties ============================== *)

(* What the documented forward pass computes.  A tensor is its trailing
   dimension and the trace of what was applied to it: a layer's id, or -1
   for the activation. *)
Tensor(dim, trace) == [kind |-> "tensor", val |-> [dim |-> dim, trace |-> trace]]

ApplyLayer(l, t) ==
    IF t.kind # "tensor" THEN t
    ELSE IF t.val.dim = l.in_features
         THEN Tensor(l.out_features, Append(t.val.trace, l.id))
         ELSE [kind |-> "raise", val |-> "ShapeMismatch"]

ApplyActivation(act, t) ==
    IF t.kind # "tensor" \/ act = "None" THEN t
    ELSE Tensor(t.val.dim, Append(t.val.trace, -1))

RECURSIVE Chain(_, _, _)
Chain(ls, act, t) ==
    IF Len(ls) = 0 THEN t
    ELSE IF Len(ls) = 1 THEN ApplyLayer(ls[1], t)
    ELSE Chain(Tail(ls), act, ApplyActivation(act, ApplyLayer(ls[1], t)))

WellFormed(ls) ==
    \A i \in 1..(Len(ls) - 1) : ls[i].out_features = ls[i + 1].in_features

(* C1: for a stack of n >= 1 layers, forward(x) returns
   Ln(A(Ln-1(... A(L1(x)) ...))): layers in descriptor order, the activation
   after every layer but the last, L1(x) alone when n = 1. *)
C1_ForwardIsChain ==
    (status = "constructed" /\ passes > 0 /\ Len(layers) >= 1) =>
        LET e == Chain(layers, activation_fn, Tensor(fwd_x, <<>>)) IN
        /\ fwd_ret.kind = e.kind
        /\ e.kind = "tensor" => fwd_ret.val = e.val

(* C2: with an activation provided, one forward pass over n layers invokes
   it exactly n-1 times when n >= 2 and never when n = 1. *)
C2_ActivationCallCount ==
    (status = "constructed" /\ passes > 0 /\ activation_fn # "None"
        /\ Len(layers) >= 1) =>
        act_calls = Len(layers) - 1

(* C3: building with an unrecognised layer kind raises ValueError for every
   descriptor list, the empty one included, before any layer is created or
   attached. *)
C3_UnknownKindFails ==
    (status # "unbuilt" /\ layer_kind = "OTHER") =>
        /\ status = "failed"
        /\ ctor_err = "ValueError"
        /\ built = 0
        /\ layer_attrs = <<>>

(* C4: after a successful construction from k descriptors the layers
   collection has exactly k layers and layer i, addressable by its index,
   has the input and output width of descriptor i. *)
C4_LayersMatchDescriptors ==
    status = "constructed" =>
        /\ Len(layers) = Len(ctor_specs)
        /\ \A i \in 1..Len(ctor_specs) :
              /\ layers[i].in_features = ctor_specs[i].in_features
              /\ layers[i].out_features = ctor_specs[i].out_features

C4_Witness ==
    /\ status = "constructed"
    /\ Len(layers) = 3
    /\ layers[1].in_features # layers[1].out_features
    /\ layers[2].in_features # layers[3].in_features

(* C5: on a chain whose consecutive widths agree, a forward pass on an input
   of the first input width completes without error and yields an output of
   the last output width. *)
C5_ForwardOutputWidth ==
    (status = "constructed" /\ passes > 0 /\ Len(layers) >= 1
        /\ WellFormed(layers) /\ fwd_x = layers[1].in_features) =>
        /\ fwd_ret.kind = "tensor"
        /\ fwd_ret.val.dim = layers[Len(layers)].out_features

(* C9: once the model is constructed, no step changes the number of layers,
   their order, their widths, their parameters or the activation
   reference. *)
C9_TopologyFrozen ==
    [][status = "constructed" =>
          /\ status' = "constructed"
          /\ layers' = layers
          /\ layer_attrs' = layer_attrs
          /\ activation_fn' = activation_fn]_vars

C9_Witness ==
    /\ status = "constructed"
    /\ passes = 2
    /\ Len(layers) >= 2
    /\ activation_fn = "ReLU"

(* The first item of a config that os.environ rejects; Len + 1 if none *)
FirstFail(items) ==
    IF \E i \in 1..Len(items) : ~CanSet(items[i].key, Str(items[i].value))
    THEN CHOOSE i \in 1..Len(items) :
            /\ ~CanSet(items[i].key, Str(items[i].value))
            /\ \A j \in 1..(i - 1) : CanSet(items[j].key, Str(items[j].value))
    ELSE Len(items) + 1

BootstrapFails(file) ==
    file.kind \in {"absent", "malformed", "list"}
        \/ FirstFail(file.items) <= Len(file.items)

(* C6 as stated: no exception escapes setup_environment_from_json on any
   path, the drive-mount step included. *)
C6_NoExceptionEscapes == env_ret.kind # "raised"

(* C6 amended: once the drive is mounted, every bootstrap failure (path
   absent, malformed JSON, content that is not an object, a variable that
   cannot be set) is reported by returning None; the only exception that
   escapes the call is one raised by the drive-mount step. *)
C6_OnlyMountEscapes ==
    /\ env_ret.kind = "raised" => mount = "raise"
    /\ (calls > 0 /\ mount = "ok" /\ BootstrapFails(env_file)) =>
          env_ret.kind = "None"

C6_Witness ==
    /\ mount = "ok"
    /\ env_file.kind = "list"
    /\ env_ret.kind = "None"

ConfigApplied(file, env) ==
    \A i \in 1..Len(file.items) :
        env[file.items[i].key] = Str(file.items[i].value)

(* C10 as stated: whenever the call returns None the environment is what it
   was before the call, and whenever it returns the config every key k has
   environment[str(k)] = str(config[k]). *)
C10_AllOrNothing ==
    [][calls' = calls + 1 =>
          /\ env_ret'.kind = "None" => environ' = environ
          /\ env_ret'.kind = "config" => ConfigApplied(env_file', environ')]_vars

(* C10 amended: whenever the call returns None the environment differs from
   what it was before the call at most in keys of the config that precede
   the first key that could not be set, each of which holds str of its
   value; whenever it returns the config every key k has
   environment[str(k)] = str(config[k]). *)
C10_PrefixOrAll ==
    [][calls' = calls + 1 =>
          /\ env_ret'.kind = "None" =>
                \A k \in KeyNames :
                    environ'[k] # environ[k] =>
                        \E i \in 1..Len(env_file'.items) :
                            /\ env_file'.items[i].key = k
                            /\ i < FirstFail(env_file'.items)
                            /\ environ'[k] = Str(env_file'.items[i].value)
          /\ env_ret'.kind = "config" => ConfigApplied(env_file', environ')]_vars

C10_Witness ==
    /\ calls = 1
    /\ env_ret.kind = "None"
    /\ Len(env_file.items) = 2
    /\ env_file.items[1].value.t = "bool"
    /\ environ[env_file.items[1].key] = "True"

(* C7: get_optimizer returns an optimizer exactly when the kind is "SGD" or
   "Adam", of that class; for every other kind string it raises ValueError
   and creates no optimizer. *)
C7_OptimizerKinds ==
    [][opt_calls' = opt_calls + 1 =>
          IF opt_kind' \in {"SGD", "Adam"}
          THEN /\ opt_ret'.kind = "optimizer"
               /\ opt_ret'.val.class = opt_kind'
               /\ optimizers' = Append(optimizers, opt_ret'.val)
          ELSE /\ opt_ret' = [kind |-> "raise", val |-> "ValueError"]
               /\ optimizers' = optimizers]_vars

C7_Witness ==
    /\ opt_kind = "sgd"
    /\ opt_ret.kind = "raise"
    /\ Len(optimizers) = 2
    /\ optimizers[1].class # optimizers[2].class

Matches(yt, yp) == Cardinality({i \in 1..Len(yt) : yt[i] = yp[i]})

(* C8: for equal-length non-empty label sequences, accuracy_fn and
   simple_accuracy_fn return 100 * matches / count, the result lies between
   0 and 100, and the inputs are not modified. *)
C8_Accuracy ==
    /\ [](acc_fn # "none" =>
            /\ acc_ret.den > 0
            /\ acc_ret.num * Len(y_true) = 100 * Matches(y_true, y_pred) * acc_ret.den
            /\ 0 <= acc_ret.num
            /\ acc_ret.num <= 100 * acc_ret.den)
    /\ [][y_true' = y_true /\ y_pred' = y_pred]_vars

C8_Witness ==
    /\ acc_fn = "simple_accuracy_fn"
    /\ Len(y_true) = 3
    /\ Matches(y_true, y_pred) = 2
    /\ acc_ret.num = 200 /\ acc_ret.den = 3
====
